---- MODULE Spec2Model ----
(***************************************************************************)
(* The passport chaincode (SmartContract) of os-tap/fabric, run against a  *)
(* ledger platform: a key-value world state, a per-key change log, and     *)
(* all-or-nothing commit of the writes of a transaction that returned nil. *)
(*                                                                         *)
(* A Go string is a sequence of segments.  A segment is one of the special *)
(* characters below or a run of plain ASCII text ("Igor").  A []byte JSON  *)
(* text is a sequence of tokens: the structural characters, the string     *)
(* delimiter DQ, the literals true/false, plain runs and escape sequences. *)
(***************************************************************************)
EXTENDS Integers, Sequences, FiniteSets, TLC

\* Bound: committed transactions per behaviour (the length of the ledger).
MaxTx == 3

\* ------------------------------------------------------------ characters
DQ     == "\""           \* the character " (in a JSON text: the delimiter)
BSLASH == "\\"           \* the character \
LT     == "<"            \* html-sensitive; json.Marshal escapes it
BAD    == "0xFF"         \* one byte that is not valid UTF-8
REPL   == "U+FFFD"       \* the Unicode replacement character (valid UTF-8)

\* encoding/json, encodeState.string with escapeHTML = true: one segment of a
\* Go string to the tokens written for it.
EncSeg(c) ==
    CASE c = DQ     -> "\\\""
      [] c = BSLASH -> "\\\\"
      [] c = LT     -> "\\u003c"
      [] c = BAD    -> "\\ufffd"
      [] OTHER      -> c

\* encoding/json, unquote: one token inside a JSON string to the segment read.
DecTok(t) ==
    CASE t = "\\\""   -> DQ
      [] t = "\\\\"   -> BSLASH
      [] t = "\\u003c" -> LT
      [] t = "\\ufffd" -> REPL
      [] t = BAD      -> REPL
      [] OTHER        -> t

\* A JSON string literal for the Go string s.
EncString(s) == <<DQ>> \o [i \in 1..Len(s) |-> EncSeg(s[i])] \o <<DQ>>

EncBool(b) == IF b THEN <<"true">> ELSE <<"false">>

\* utf8.ValidString
ValidUTF8(s) == \A i \in 1..Len(s) : s[i] # BAD

\* ---------------------------------------------------------------- Person
ZeroPerson ==
    [ID |-> <<>>, Serial |-> <<>>, Name |-> <<>>, Surname |-> <<>>,
     City |-> <<>>, Address |-> <<>>, Phone |-> <<>>, Married |-> FALSE]

\* The json tag of each field of Person, in declaration order.
StringTags ==
    << <<"id", "ID">>, <<"passport", "Serial">>, <<"name", "Name">>,
       <<"surname", "Surname">>, <<"city", "City">>, <<"address", "Address">>,
       <<"phone", "Phone">> >>

Member(tag, val) == EncString(<<tag>>) \o <<":">> \o val

\* json.Marshal(person): the fields in declaration order, under their tags.
Marshal(p) ==
    <<"{">>
    \o Member("id", EncString(p.ID)) \o <<",">>
    \o Member("passport", EncString(p.Serial)) \o <<",">>
    \o Member("name", EncString(p.Name)) \o <<",">>
    \o Member("surname", EncString(p.Surname)) \o <<",">>
    \o Member("city", EncString(p.City)) \o <<",">>
    \o Member("address", EncString(p.Address)) \o <<",">>
    \o Member("phone", EncString(p.Phone)) \o <<",">>
    \o Member("married", EncBool(p.Married))
    \o <<"}">>

ParseFail == [ok |-> FALSE, val |-> <<>>, next |-> 0, kind |-> "none"]

\* The JSON string literal that starts at b[j-1] = DQ, read from b[j] on.
RECURSIVE Unquote(_, _, _)
Unquote(b, j, acc) ==
    IF j > Len(b) THEN ParseFail
    ELSE IF b[j] = DQ
         THEN [ok |-> TRUE, val |-> acc, next |-> j + 1, kind |-> "string"]
         ELSE Unquote(b, j + 1, Append(acc, DecTok(b[j])))

\* One JSON value of the kinds a Person holds, starting at b[i].
ParseValue(b, i) ==
    IF i > Len(b) THEN ParseFail
    ELSE IF b[i] = DQ THEN Unquote(b, i + 1, <<>>)
    ELSE IF b[i] = "true"
         THEN [ok |-> TRUE, val |-> TRUE, next |-> i + 1, kind |-> "bool"]
    ELSE IF b[i] = "false"
         THEN [ok |-> TRUE, val |-> FALSE, next |-> i + 1, kind |-> "bool"]
    ELSE ParseFail

\* The struct field a key names and the kind of value it takes.
FieldOf(key) ==
    IF key = <<"married">> THEN [name |-> "Married", kind |-> "bool"]
    ELSE IF \E k \in 1..Len(StringTags) : key = <<StringTags[k][1]>>
         THEN [name |-> StringTags[CHOOSE k \in 1..Len(StringTags) :
                                      key = <<StringTags[k][1]>>][2],
               kind |-> "string"]
         ELSE [name |-> "", kind |-> "unknown"]

\* The members of an object from b[i] (the start of a key) to the closing
\* brace, stored into p; a key no field has is skipped, a value of the wrong
\* kind is an UnmarshalTypeError.
RECURSIVE ParseMembers(_, _, _)
ParseMembers(b, i, p) ==
    IF i > Len(b) \/ b[i] # DQ THEN [err |-> TRUE, p |-> ZeroPerson]
    ELSE
    LET k == Unquote(b, i + 1, <<>>) IN
    IF ~k.ok \/ k.next > Len(b) \/ b[k.next] # ":"
    THEN [err |-> TRUE, p |-> ZeroPerson]
    ELSE
    LET v == ParseValue(b, k.next + 1)
        f == FieldOf(k.val)
    IN
    IF ~v.ok \/ v.next > Len(b) \/ (f.kind # "unknown" /\ f.kind # v.kind)
    THEN [err |-> TRUE, p |-> ZeroPerson]
    ELSE
    LET q == IF f.kind = "unknown" THEN p ELSE [p EXCEPT ![f.name] = v.val] IN
    IF b[v.next] = "," THEN ParseMembers(b, v.next + 1, q)
    ELSE IF b[v.next] = "}" /\ v.next = Len(b) THEN [err |-> FALSE, p |-> q]
    ELSE [err |-> TRUE, p |-> ZeroPerson]

\* json.Unmarshal(b, &person) into a zero Person: an empty (nil) input and
\* any text that is not one object are errors.
Unmarshal(b) ==
    IF Len(b) < 2 \/ b[1] # "{" THEN [err |-> TRUE, p |-> ZeroPerson]
    ELSE IF Len(b) = 2
         THEN [err |-> b[2] # "}", p |-> ZeroPerson]
         ELSE ParseMembers(b, 2, ZeroPerson)

\* ------------------------------------------------------ ledger platform
OK == "OK"

\* GetState of a key the world state does not hold: nil.
Nil == <<>>

person0 == <<"person0">>
person1 == <<"person1">>

\* The keys of the model, in the order a range scan returns them.
IdOrder == <<person0, person1>>
Ids == {IdOrder[i] : i \in 1..Len(IdOrder)}

\* Every platform call below takes f, the call of the transaction that the
\* platform fails: "none", "GetState", "PutState" (the first PutState),
\* "PutState2" (the second), "DelState", "GetStateByRange",
\* "GetHistoryForKey" or "Next" (advancing an iterator).

\* stub.GetState(key)
GetState(st, f, key) ==
    IF f = "GetState" THEN [err |-> "StubError", val |-> Nil]
    ELSE [err |-> OK, val |-> st[key]]

\* stub.PutState(key, value), the n-th PutState of the transaction: the
\* error, and the write it adds to the transaction's write set.
PutState(f, n, key, value) ==
    IF f = (IF n = 1 THEN "PutState" ELSE "PutState2")
    THEN [err |-> "StubError", ws |-> <<>>]
    ELSE [err |-> OK,
          ws |-> <<[key |-> key, value |-> value, isDelete |-> FALSE]>>]

\* stub.DelState(key)
DelState(f, key) ==
    IF f = "DelState" THEN [err |-> "StubError", ws |-> <<>>]
    ELSE [err |-> OK,
          ws |-> <<[key |-> key, value |-> Nil, isDelete |-> TRUE]>>]

\* stub.GetStateByRange("", ""): the values of the keys present, in key order.
RECURSIVE RangeFrom(_, _)
RangeFrom(st, i) ==
    IF i > Len(IdOrder) THEN <<>>
    ELSE (IF st[IdOrder[i]] = Nil THEN <<>>
          ELSE <<[Key |-> IdOrder[i], Value |-> st[IdOrder[i]]]>>)
         \o RangeFrom(st, i + 1)

GetStateByRange(st, f) ==
    IF f = "GetStateByRange" THEN [err |-> "StubError", it |-> <<>>]
    ELSE [err |-> OK, it |-> RangeFrom(st, 1)]

\* stub.GetHistoryForKey(key): the key's change log, oldest first.
GetHistoryForKey(hist, f, key) ==
    IF f = "GetHistoryForKey" THEN [err |-> "StubError", it |-> <<>>]
    ELSE [err |-> OK, it |-> hist[key]]

\* The world state after the writes ws, applied in order.
RECURSIVE ApplyWrites(_, _)
ApplyWrites(st, ws) ==
    IF ws = <<>> THEN st
    ELSE ApplyWrites([st EXCEPT ![Head(ws).key] = Head(ws).value], Tail(ws))

\* The change logs after a transaction txid, stamped ts, committed ws.
RECURSIVE LogWrites(_, _, _, _)
LogWrites(hist, ws, txid, ts) ==
    IF ws = <<>> THEN hist
    ELSE LogWrites(
           [hist EXCEPT ![Head(ws).key] =
              Append(@, [TxId |-> txid, Timestamp |-> ts,
                         Value |-> Head(ws).value,
                         IsDelete |-> Head(ws).isDelete])],
           Tail(ws), txid, ts)

\* --------------------------------------------------------- SmartContract
NoRet == "nil"

\* What a handler run leaves behind: its error and return value, the writes
\* it staged (ws), the keys it read with GetState (rs), and the number of
\* iterators it opened and did not close (open).
Res(err, ret, ws) ==
    [err |-> err, ret |-> ret, ws |-> ws, rs |-> {}, open |-> 0]

\* r, from a run that called stub.GetState(key).
Reading(key, r) == [r EXCEPT !.rs = @ \cup {key}]

\* r, from a run that began with the calls of the run first.
After(first, r) == [r EXCEPT !.rs = @ \cup first.rs]

\* r, from a run during which an iterator was obtained.
Opened(r) == [r EXCEPT !.open = @ + 1]

\* r, once resultsIterator.Close() has run.
Close(r) == [r EXCEPT !.open = @ - 1]

NewPerson(id, a) ==
    [ID |-> id, Serial |-> a.serial, Name |-> a.name, Surname |-> a.surname,
     City |-> a.city, Address |-> a.address, Phone |-> a.phone,
     Married |-> a.married]

SeedPersons ==
    << [ID |-> person0, Serial |-> <<"0510 228148">>, Name |-> <<"Igor">>,
        Surname |-> <<"Nikolaev">>, City |-> <<"Moscow">>,
        Address |-> <<"Likhachevsky proezd 2">>, Phone |-> <<"88005553535">>,
        Married |-> TRUE],
       [ID |-> person1, Serial |-> <<"1020 123654">>, Name |-> <<"Matvei">>,
        Surname |-> <<"Stepanov">>, City |-> <<"Dolgoprudny">>,
        Address |-> <<"Universitetskaya 11">>, Phone |-> <<"88005553535">>,
        Married |-> FALSE] >>

\* PersonExists as it would be if absence were reported as an error, the
\* way ReadPerson reports it.
PersonExistsOrError(st, f, id) ==
    LET r == GetState(st, f, id) IN
    IF r.err # OK THEN Res("ReadFailed", FALSE, <<>>)
    ELSE IF r.val = Nil THEN Res("DoesNotExist", FALSE, <<>>)
    ELSE Res(OK, TRUE, <<>>)

PersonExists(st, f, id) ==
    LET r == GetState(st, f, id) IN
    Reading(id, IF r.err # OK THEN Res("ReadFailed", FALSE, <<>>)
                ELSE Res(OK, r.val # Nil, <<>>))

\* InitLedger as it would be if a failed PutState were skipped, not returned.
RECURSIVE InitLoopIgnoringErrors(_, _, _, _)
InitLoopIgnoringErrors(persons, i, f, ws) ==
    IF i > Len(persons) THEN Res(OK, NoRet, ws)
    ELSE LET w == PutState(f, i, persons[i].ID, Marshal(persons[i])) IN
         InitLoopIgnoringErrors(persons, i + 1, f, ws \o w.ws)

InitLedgerIgnoringErrors(st, f) ==
    InitLoopIgnoringErrors(SeedPersons, 1, f, <<>>)

\* InitLedger as it would be if it refused to write a seed id that exists.
InitLedgerChecked(st, f) ==
    IF \E i \in 1..Len(SeedPersons) : st[SeedPersons[i].ID] # Nil
    THEN Res("AlreadyExists", NoRet, <<>>)
    ELSE InitLoopIgnoringErrors(SeedPersons, 1, "none", <<>>)

RECURSIVE InitLoop(_, _, _, _)
InitLoop(persons, i, f, ws) ==
    IF i > Len(persons) THEN Res(OK, NoRet, ws)
    ELSE LET w == PutState(f, i, persons[i].ID, Marshal(persons[i])) IN
         IF w.err # OK THEN Res("PutFailed", NoRet, ws)
         ELSE InitLoop(persons, i + 1, f, ws \o w.ws)

InitLedger(st, f) == InitLoop(SeedPersons, 1, f, <<>>)

\* CreatePerson as it would be with name and surname stored the wrong way round.
CreatePersonSwapped(st, f, id, a) ==
    LET exists == PersonExists(st, f, id) IN
    IF exists.err # OK THEN Res(exists.err, NoRet, <<>>)
    ELSE IF exists.ret THEN Res("AlreadyExists", NoRet, <<>>)
    ELSE LET person == [NewPerson(id, a) EXCEPT !.Name = a.surname,
                                                !.Surname = a.name]
             w == PutState(f, 1, id, Marshal(person))
         IN Res(w.err, NoRet, w.ws)

\* CreatePerson as it would be if the record were stored under the first
\* seed id instead of its own.
CreatePersonWrongKey(st, f, id, a) ==
    LET exists == PersonExists(st, f, id) IN
    IF exists.err # OK THEN Res(exists.err, NoRet, <<>>)
    ELSE IF exists.ret THEN Res("AlreadyExists", NoRet, <<>>)
    ELSE LET w == PutState(f, 1, SeedPersons[1].ID, Marshal(NewPerson(id, a)))
         IN Res(w.err, NoRet, w.ws)

\* CreatePerson as it would be without its existence check.
CreatePersonUnchecked(st, f, id, a) ==
    LET w == PutState(f, 1, id, Marshal(NewPerson(id, a))) IN
    Res(w.err, NoRet, w.ws)

CreatePerson(st, f, id, a) ==
    LET exists == PersonExists(st, f, id) IN
    After(exists,
      IF exists.err # OK THEN Res(exists.err, NoRet, <<>>)
      ELSE IF exists.ret THEN Res("AlreadyExists", NoRet, <<>>)
      ELSE LET w == PutState(f, 1, id, Marshal(NewPerson(id, a))) IN
           Res(w.err, NoRet, w.ws))

ReadPerson(st, f, id) ==
    LET r == GetState(st, f, id) IN
    Reading(id,
      IF r.err # OK THEN Res("ReadFailed", NoRet, <<>>)
      ELSE IF r.val = Nil THEN Res("DoesNotExist", NoRet, <<>>)
      ELSE LET u == Unmarshal(r.val) IN
           IF u.err THEN Res("JSONError", NoRet, <<>>)
           ELSE Res(OK, u.p, <<>>))

\* UpdatePerson as it would be if the new Person were built without its ID.
UpdatePersonNoID(st, f, id, a) ==
    LET exists == PersonExists(st, f, id) IN
    IF exists.err # OK THEN Res(exists.err, NoRet, <<>>)
    ELSE IF ~exists.ret THEN Res("DoesNotExist", NoRet, <<>>)
    ELSE LET person == [NewPerson(id, a) EXCEPT !.ID = <<>>]
             w == PutState(f, 1, id, Marshal(person))
         IN Res(w.err, NoRet, w.ws)

\* UpdatePerson as it would be without its existence check (an upsert).
UpdatePersonUpsert(st, f, id, a) ==
    LET w == PutState(f, 1, id, Marshal(NewPerson(id, a))) IN
    Res(w.err, NoRet, w.ws)

\* UpdatePerson as it would be if an empty argument kept the stored field.
UpdatePersonMerge(st, f, id, a) ==
    LET r == GetState(st, f, id) IN
    IF r.err # OK THEN Res("ReadFailed", NoRet, <<>>)
    ELSE IF r.val = Nil THEN Res("DoesNotExist", NoRet, <<>>)
    ELSE LET old == Unmarshal(r.val).p
             new == NewPerson(id, a)
             Keep(x, y) == IF x = <<>> THEN y ELSE x
             person == [new EXCEPT !.Serial = Keep(new.Serial, old.Serial),
                                   !.Name = Keep(new.Name, old.Name),
                                   !.Surname = Keep(new.Surname, old.Surname),
                                   !.City = Keep(new.City, old.City),
                                   !.Address = Keep(new.Address, old.Address),
                                   !.Phone = Keep(new.Phone, old.Phone)]
             w == PutState(f, 1, id, Marshal(person))
         IN Res(w.err, NoRet, w.ws)

UpdatePerson(st, f, id, a) ==
    LET exists == PersonExists(st, f, id) IN
    After(exists,
      IF exists.err # OK THEN Res(exists.err, NoRet, <<>>)
      ELSE IF ~exists.ret THEN Res("DoesNotExist", NoRet, <<>>)
      ELSE LET w == PutState(f, 1, id, Marshal(NewPerson(id, a))) IN
           Res(w.err, NoRet, w.ws))

\* DeletePerson as it would be if it blanked the record instead of removing
\* the key.
DeletePersonTombstone(st, f, id) ==
    LET exists == PersonExists(st, f, id) IN
    IF exists.err # OK THEN Res(exists.err, NoRet, <<>>)
    ELSE IF ~exists.ret THEN Res("DoesNotExist", NoRet, <<>>)
    ELSE LET w == PutState(f, 1, id, Marshal([ZeroPerson EXCEPT !.ID = id])) IN
         Res(w.err, NoRet, w.ws)

\* DeletePerson as it would be without its existence check.
DeletePersonUnchecked(st, f, id) ==
    LET w == DelState(f, id) IN Res(w.err, NoRet, w.ws)

DeletePerson(st, f, id) ==
    LET exists == PersonExists(st, f, id) IN
    After(exists,
      IF exists.err # OK THEN Res(exists.err, NoRet, <<>>)
      ELSE IF ~exists.ret THEN Res("DoesNotExist", NoRet, <<>>)
      ELSE LET w == DelState(f, id) IN Res(w.err, NoRet, w.ws))

\* The loop of GetAllPersons as it would be if person were declared outside
\* the loop: every pointer appended is to the one variable, which ends up
\* holding the last record read.
RECURSIVE AllLoopAliased(_, _, _, _)
AllLoopAliased(it, i, f, persons) ==
    IF i > Len(it) THEN Res(OK, persons, <<>>)
    ELSE IF f = "Next" THEN Res("StubError", NoRet, <<>>)
    ELSE LET u == Unmarshal(it[i].Value) IN
         IF u.err THEN Res("JSONError", NoRet, <<>>)
         ELSE AllLoopAliased(it, i + 1, f,
                [k \in 1..(Len(persons) + 1) |-> u.p])

\* The loop of GetAllPersons over the iterator it, from its i-th result.
RECURSIVE AllLoop(_, _, _, _)
AllLoop(it, i, f, persons) ==
    IF i > Len(it) THEN Res(OK, persons, <<>>)
    ELSE IF f = "Next" THEN Res("StubError", NoRet, <<>>)
    ELSE LET u == Unmarshal(it[i].Value) IN
         IF u.err THEN Res("JSONError", NoRet, <<>>)
         ELSE AllLoop(it, i + 1, f, Append(persons, u.p))

\* GetAllPersons as it would be if the iterator were closed after the loop
\* instead of by a deferred call: the returns inside the loop skip the close.
GetAllPersonsCloseAtEnd(st, f) ==
    LET r == GetStateByRange(st, f) IN
    IF r.err # OK THEN Res(r.err, NoRet, <<>>)
    ELSE LET l == Opened(AllLoop(r.it, 1, f, <<>>)) IN
         IF l.err = OK THEN Close(l) ELSE l

\* The deferred resultsIterator.Close() runs on every return that follows
\* the successful GetStateByRange.
GetAllPersons(st, f) ==
    LET r == GetStateByRange(st, f) IN
    IF r.err # OK THEN Res(r.err, NoRet, <<>>)
    ELSE Close(Opened(AllLoop(r.it, 1, f, <<>>)))

\* The loop of GetPersonHistory as it would be if each update were put at
\* the front of the result.
RECURSIVE HistoryLoopNewestFirst(_, _, _, _)
HistoryLoopNewestFirst(it, i, f, updatesHistory) ==
    IF i > Len(it) THEN Res(OK, updatesHistory, <<>>)
    ELSE IF f = "Next" THEN Res("StubError", NoRet, <<>>)
    ELSE LET u == Unmarshal(it[i].Value) IN
         IF u.err THEN Res("JSONError", NoRet, <<>>)
         ELSE HistoryLoopNewestFirst(it, i + 1, f,
                <<[Tx |-> it[i].TxId, Timestamp |-> it[i].Timestamp,
                   Data |-> u.p]>> \o updatesHistory)

\* The loop of GetPersonHistory over the iterator it, from its i-th result.
RECURSIVE HistoryLoop(_, _, _, _)
HistoryLoop(it, i, f, updatesHistory) ==
    IF i > Len(it) THEN Res(OK, updatesHistory, <<>>)
    ELSE IF f = "Next" THEN Res("StubError", NoRet, <<>>)
    ELSE LET u == Unmarshal(it[i].Value) IN
         IF u.err THEN Res("JSONError", NoRet, <<>>)
         ELSE HistoryLoop(it, i + 1, f,
                Append(updatesHistory,
                       [Tx |-> it[i].TxId, Timestamp |-> it[i].Timestamp,
                        Data |-> u.p]))

\* GetPersonHistory as it would be without its existence check.
GetPersonHistoryUnchecked(st, hist, f, id) ==
    LET r == GetHistoryForKey(hist, f, id) IN
    IF r.err # OK THEN Res(r.err, NoRet, <<>>)
    ELSE HistoryLoop(r.it, 1, f, <<>>)

GetPersonHistory(st, hist, f, id) ==
    LET exists == PersonExists(st, f, id) IN
    After(exists,
      IF exists.err # OK THEN Res(exists.err, NoRet, <<>>)
      ELSE IF ~exists.ret THEN Res("DoesNotExist", NoRet, <<>>)
      ELSE LET r == GetHistoryForKey(hist, f, id) IN
           IF r.err # OK THEN Res(r.err, NoRet, <<>>)
           ELSE Close(Opened(HistoryLoop(r.it, 1, f, <<>>))))

\* ---------------------------------------------------------- transactions
\* The seven arguments of CreatePerson and UpdatePerson after the id.
Args(serial, name, surname, city, address, phone, married) ==
    [serial |-> serial, name |-> name, surname |-> surname, city |-> city,
     address |-> address, phone |-> phone, married |-> married]

NoArgs == Args(<<>>, <<>>, <<>>, <<>>, <<>>, <<>>, FALSE)
NoId == <<>>

\* Argument values submitted: valid text that json.Marshal escapes, with an
\* empty string and the replacement character; and plain text around a name
\* that holds a byte that is not UTF-8.
ArgSets ==
    { Args(<<"9999">>, <<"O", DQ, "N">>, <<LT, "b">>, <<BSLASH>>,
           <<>>, <<REPL>>, FALSE),
      Args(<<"4509 000001">>, <<"x", BAD>>, <<"Ivanov">>, <<"Kazan">>,
           <<"Pushkina 1">>, <<"84950000000">>, TRUE) }

ValidArgs(a) ==
    /\ ValidUTF8(a.serial) /\ ValidUTF8(a.name) /\ ValidUTF8(a.surname)
    /\ ValidUTF8(a.city) /\ ValidUTF8(a.address) /\ ValidUTF8(a.phone)

VARIABLES
    state,      \* the world state: key -> value bytes, Nil when absent
    history,    \* the platform's change log of each key, oldest first
    ntx,        \* transactions committed so far
    last,       \* the last invocation: its arguments, error and return value
    opsLog,     \* per key, the operations on it that committed, with their
                \* arguments and the record in effect after each (a
                \* history variable: no operation reads it)
    cursors,    \* iterators that handler runs obtained and have not closed
    shell,      \* the gateway shell: its position and its local variables
    pending     \* per client, its transaction endorsed and not yet committed

vars == <<state, history, ntx, last, opsLog, cursors, shell, pending>>

\* The shell and one other client of the same channel.
Clients == {"shell", "other"}
NoTx == [op |-> "none"]

\* The shell at its prompt, between commands.
AtMenu == [pc |-> "menu", id |-> NoId, person |-> ZeroPerson, input |-> NoArgs]

Invocation(op, id, a, f, r) ==
    [op |-> op, id |-> id, args |-> a, fault |-> f, err |-> r.err,
     ret |-> r.ret]

\* The record in effect for a key whose value is v.
Effective(v) == IF v = Nil THEN ZeroPerson ELSE Unmarshal(v).p

\* The keys an operation is about: its id, or the seed ids.
Touched(op, id) ==
    IF op = "InitLedger" THEN {SeedPersons[i].ID : i \in 1..Len(SeedPersons)}
    ELSE {id}

\* opsLog after operation op(id, a) committed and left the world state st.
NoteOp(log, op, id, a, st) ==
    [k \in Ids |->
       IF k \in Touched(op, id)
       THEN Append(log[k], [op |-> op, args |-> a, rec |-> Effective(st[k])])
       ELSE log[k]]

\* The platform's timestamp of the n-th committed transaction: a clock that
\* never runs backwards and is coarse enough to stamp two transactions alike.
PlatformClock(n) == n \div 2

\* The platform's treatment of a submitted transaction whose simulation
\* ended r: the write set is committed whole when r carries no error, and
\* dropped whole when it does.
Commit(op, id, a, r) ==
    IF r.err = OK
    THEN /\ ntx < MaxTx
         /\ history' = LogWrites(history, r.ws, ntx + 1, PlatformClock(ntx + 1))
         /\ ntx' = ntx + 1
         /\ state' = ApplyWrites(state, r.ws)
         /\ opsLog' = NoteOp(opsLog, op, id, a, ApplyWrites(state, r.ws))
    ELSE UNCHANGED <<state, history, ntx, opsLog>>

\* SubmitTransaction(op, ...)
Submit(op, id, a, f, r) ==
    /\ Commit(op, id, a, r)
    /\ last' = Invocation(op, id, a, f, r)
    /\ cursors' = cursors + r.open

\* EvaluateTransaction(op, ...): simulated on one peer, never ordered.
Evaluate(op, id, a, f, r) ==
    /\ UNCHANGED <<state, history, ntx, opsLog>>
    /\ last' = Invocation(op, id, a, f, r)
    /\ cursors' = cursors + r.open

Init ==
    /\ state = [k \in Ids |-> Nil]
    /\ history = [k \in Ids |-> <<>>]
    /\ ntx = 0
    /\ opsLog = [k \in Ids |-> <<>>]
    /\ cursors = 0
    /\ shell = AtMenu
    /\ pending = [c \in Clients |-> NoTx]
    /\ last = [op |-> "none", id |-> NoId, args |-> NoArgs, fault |-> "none",
               err |-> OK, ret |-> NoRet]

DoInitLedger ==
    \E f \in {"none", "PutState", "PutState2"} :
        /\ Submit("InitLedger", NoId, NoArgs, f, InitLedger(state, f))
        /\ UNCHANGED <<shell, pending>>

DoCreatePerson ==
    \E id \in Ids, a \in ArgSets, f \in {"none", "PutState"} :
        /\ Submit("CreatePerson", id, a, f, CreatePerson(state, f, id, a))
        /\ UNCHANGED <<shell, pending>>

DoUpdatePerson ==
    \E id \in Ids, a \in ArgSets, f \in {"none", "PutState"} :
        /\ Submit("UpdatePerson", id, a, f, UpdatePerson(state, f, id, a))
        /\ UNCHANGED <<shell, pending>>

DoDeletePerson ==
    \E id \in Ids, f \in {"none", "DelState"} :
        /\ Submit("DeletePerson", id, NoArgs, f, DeletePerson(state, f, id))
        /\ UNCHANGED <<shell, pending>>

DoReadPerson ==
    \E id \in Ids, f \in {"none", "GetState"} :
        /\ Evaluate("ReadPerson", id, NoArgs, f, ReadPerson(state, f, id))
        /\ UNCHANGED <<shell, pending>>

DoPersonExists ==
    \E id \in Ids, f \in {"none", "GetState"} :
        /\ Evaluate("PersonExists", id, NoArgs, f, PersonExists(state, f, id))
        /\ UNCHANGED <<shell, pending>>

DoGetAllPersons ==
    \E f \in {"none", "GetStateByRange", "Next"} :
        /\ Evaluate("GetAllPersons", NoId, NoArgs, f, GetAllPersons(state, f))
        /\ UNCHANGED <<shell, pending>>

DoGetPersonHistory ==
    \E id \in Ids, f \in {"none", "GetHistoryForKey", "Next"} :
        /\ Evaluate("GetPersonHistory", id, NoArgs, f,
                    GetPersonHistory(state, history, f, id))
        /\ UNCHANGED <<shell, pending>>

Next ==
    \/ DoInitLedger
    \/ DoCreatePerson
    \/ DoUpdatePerson
    \/ DoDeletePerson
    \/ DoReadPerson
    \/ DoPersonExists
    \/ DoGetAllPersons
    \/ DoGetPersonHistory

Spec == Init /\ [][Next]_vars

\* A client that only submits: the four state-changing transactions.
SubmitNext ==
    \/ DoInitLedger
    \/ DoCreatePerson
    \/ DoUpdatePerson
    \/ DoDeletePerson

SpecSubmit == Init /\ [][SubmitNext]_vars

\* A client that seeds, creates, deletes and queries.
QueryNext ==
    \/ DoInitLedger
    \/ DoCreatePerson
    \/ DoDeletePerson
    \/ DoReadPerson
    \/ DoPersonExists
    \/ DoGetAllPersons
    \/ DoGetPersonHistory

SpecQuery == Init /\ [][QueryNext]_vars

\* ------------------------------------------------- submit, step by step
\* SubmitTransaction is endorsement (the handler simulated on a peer), then
\* ordering, then validation and commit; another client's transaction can
\* commit in between.

\* The version of a key: the number of committed writes to it.
Version(hist, key) == Len(hist[key])

\* The transaction a client holds after the simulation r was endorsed: its
\* writes, and the version of every key it read.
Endorsed(op, id, a, r, hist) ==
    [op |-> op, id |-> id, args |-> a, ws |-> r.ws,
     ver |-> [k \in r.rs |-> Version(hist, k)]]

\* Validation at commit: every key read is still at the version read.
Valid(tx, hist) == \A k \in DOMAIN tx.ver : Version(hist, k) = tx.ver[k]

\* Client c has op(id, a) endorsed; r is its simulation on the current
\* world state. A simulation that returns an error is not endorsed.
Endorse(c, op, id, a, r) ==
    /\ pending[c] = NoTx
    /\ pending' = [pending EXCEPT
                     ![c] = IF r.err = OK
                            THEN Endorsed(op, id, a, r, history) ELSE NoTx]
    /\ UNCHANGED <<state, history, ntx, opsLog>>
    /\ last' = Invocation(op, id, a, "none", r)
    /\ cursors' = cursors + r.open

\* The endorsed transaction of client c is ordered and validated: committed
\* whole when valid, dropped whole when a key it read has changed.
CommitEndorsed(c) ==
    /\ pending[c] # NoTx
    /\ Commit(pending[c].op, pending[c].id, pending[c].args,
              [err |-> IF Valid(pending[c], history)
                       THEN OK ELSE "MVCC_READ_CONFLICT",
               ws |-> pending[c].ws])
    /\ pending' = [pending EXCEPT ![c] = NoTx]
    /\ UNCHANGED <<last, cursors>>

\* ------------------------------------------------------------ the shell
\* strconv.ParseBool and strconv.FormatBool
TrueWords == {<<"1">>, <<"t">>, <<"T">>, <<"TRUE">>, <<"true">>, <<"True">>}
FalseWords == {<<"0">>, <<"f">>, <<"F">>, <<"FALSE">>, <<"false">>, <<"False">>}
ParseBool(str) ==
    [err |-> str \notin (TrueWords \cup FalseWords), val |-> str \in TrueWords]
FormatBool(b) == IF b THEN <<"true">> ELSE <<"false">>

\* The lines typed at the prompts of create: none is blank, and the last
\* is a word ParseBool accepts.
CreateInputs ==
    { Args(<<"7700 111111">>, <<"Anna">>, <<"Lee">>, <<"Omsk">>, <<"Mira 1">>,
           <<"100">>, <<"t">>) }

\* The lines typed at the prompts of update: all blank, or a new name and
\* a new marital status.
UpdateInputs ==
    { Args(<<>>, <<>>, <<>>, <<>>, <<>>, <<>>, <<>>),
      Args(<<>>, <<"Bob">>, <<>>, <<>>, <<>>, <<>>, <<"False">>) }

\* What the other client submits.
OtherArgs ==
    Args(<<"8800 222222">>, <<"Eve">>, <<"Roe">>, <<"Tver">>, <<"Lenina 2">>,
         <<"200">>, FALSE)

\* The id the other client works on.
OtherIds == {person0}

\* The string arguments of a submit as the contract function receives them:
\* the shell formats Married, the contract API parses it.
WireArgs(p) ==
    Args(p.Serial, p.Name, p.Surname, p.City, p.Address, p.Phone,
         ParseBool(FormatBool(p.Married)).val)

\* The Person built from the id accepted and the lines typed.
parsePersonInputCreate(id, in) ==
    [ID |-> id, Serial |-> in.serial, Name |-> in.name,
     Surname |-> in.surname, City |-> in.city, Address |-> in.address,
     Phone |-> in.phone, Married |-> ParseBool(in.married).val]

\* A typed line replaces the field; a blank line keeps it.
Keep(old, line) == IF Len(line) # 0 THEN line ELSE old

parsePersonInputUpdate(p, in) ==
    [ID |-> p.ID, Serial |-> Keep(p.Serial, in.serial),
     Name |-> Keep(p.Name, in.name), Surname |-> Keep(p.Surname, in.surname),
     City |-> Keep(p.City, in.city), Address |-> Keep(p.Address, in.address),
     Phone |-> Keep(p.Phone, in.phone),
     Married |-> IF Len(in.married) # 0 THEN ParseBool(in.married).val
                 ELSE p.Married]

\* panic(...)
Crashed == [AtMenu EXCEPT !.pc = "crashed"]

\* cmd 1, the Id prompt: the id typed is asked for again while
\* checkPersonExists is true; a failed evaluate panics.
createPersonId ==
    /\ shell.pc \in {"menu", "create.id"}
    /\ \E id \in Ids, f \in {"none", "GetState"} :
         LET r == PersonExists(state, f, id) IN
         /\ Evaluate("PersonExists", id, NoArgs, f, r)
         /\ shell' = IF r.err # OK THEN Crashed
                     ELSE IF EncBool(r.ret) = EncBool(TRUE)
                          THEN [AtMenu EXCEPT !.pc = "create.id"]
                     ELSE [AtMenu EXCEPT !.pc = "create.fields", !.id = id]
    /\ UNCHANGED pending

\* cmd 1, after the prompts: SubmitTransaction("CreatePerson", ...) is
\* endorsed, or fails and panics.
createPersonSubmit ==
    /\ shell.pc = "create.fields"
    /\ \E in \in CreateInputs :
         LET p == parsePersonInputCreate(shell.id, in)
             r == CreatePerson(state, "none", p.ID, WireArgs(p)) IN
         /\ Endorse("shell", "CreatePerson", p.ID, WireArgs(p), r)
         /\ shell' = IF r.err # OK THEN Crashed
                     ELSE [shell EXCEPT !.pc = "create.commit"]

\* cmd 4, readPersonByID: a failed evaluate is printed and the command ends;
\* otherwise the bytes returned are decoded into person.
updatePersonRead ==
    /\ shell.pc = "menu"
    /\ \E id \in Ids, f \in {"none", "GetState"} :
         LET r == ReadPerson(state, f, id) IN
         /\ Evaluate("ReadPerson", id, NoArgs, f, r)
         /\ shell' = IF r.err # OK THEN AtMenu
                     ELSE [AtMenu EXCEPT !.pc = "update.input", !.id = id,
                             !.person = Unmarshal(Marshal(r.ret)).p]
    /\ UNCHANGED pending

\* cmd 4, after the prompts: SubmitTransaction("UpdatePerson", ...) with
\* the fields of person, each replaced where a line was typed.
updatePersonSubmit ==
    /\ shell.pc = "update.input"
    /\ \E in \in UpdateInputs :
         LET p == parsePersonInputUpdate(shell.person, in)
             r == UpdatePerson(state, "none", p.ID, WireArgs(p)) IN
         /\ Endorse("shell", "UpdatePerson", p.ID, WireArgs(p), r)
         /\ shell' = IF r.err # OK THEN Crashed
                     ELSE [shell EXCEPT !.pc = "update.commit", !.input = in]

\* SubmitTransaction returns: nil once the transaction committed, an error
\* when it was invalidated, and then the shell panics.
submitReturns ==
    /\ shell.pc \in {"create.commit", "update.commit"}
    /\ CommitEndorsed("shell")
    /\ shell' = IF Valid(pending["shell"], history) THEN AtMenu ELSE Crashed

\* cmd 2 as it would be if the shell called its initLedger before listing.
getAllPersonsSeeding ==
    /\ shell.pc = "menu"
    /\ Submit("InitLedger", NoId, NoArgs, "none", InitLedger(state, "none"))
    /\ UNCHANGED <<shell, pending>>

\* cmd 2: a failed evaluate panics.
getAllPersons ==
    /\ shell.pc = "menu"
    /\ \E f \in {"none", "GetStateByRange"} :
         LET r == GetAllPersons(state, f) IN
         /\ Evaluate("GetAllPersons", NoId, NoArgs, f, r)
         /\ shell' = IF r.err # OK THEN Crashed ELSE AtMenu
    /\ UNCHANGED pending

\* cmd 3: a failed evaluate is printed.
readPersonByID ==
    /\ shell.pc = "menu"
    /\ \E id \in Ids, f \in {"none", "GetState"} :
         Evaluate("ReadPerson", id, NoArgs, f, ReadPerson(state, f, id))
    /\ UNCHANGED <<shell, pending>>

\* cmd 5: a failed evaluate is printed.
getPersonHistory ==
    /\ shell.pc = "menu"
    /\ \E id \in Ids, f \in {"none", "GetHistoryForKey"} :
         Evaluate("GetPersonHistory", id, NoArgs, f,
                  GetPersonHistory(state, history, f, id))
    /\ UNCHANGED <<shell, pending>>

\* The other client has a transaction endorsed.
otherEndorse ==
    /\ \E id \in OtherIds :
         \/ Endorse("other", "CreatePerson", id, OtherArgs,
                    CreatePerson(state, "none", id, OtherArgs))
         \/ Endorse("other", "UpdatePerson", id, OtherArgs,
                    UpdatePerson(state, "none", id, OtherArgs))
         \/ Endorse("other", "DeletePerson", id, NoArgs,
                    DeletePerson(state, "none", id))
    /\ UNCHANGED shell

\* The other client's transaction is validated.
otherCommit ==
    /\ CommitEndorsed("other")
    /\ UNCHANGED shell

ShellNext ==
    \/ createPersonId
    \/ createPersonSubmit
    \/ updatePersonRead
    \/ updatePersonSubmit
    \/ submitReturns
    \/ getAllPersons
    \/ readPersonByID
    \/ getPersonHistory
    \/ otherEndorse
    \/ otherCommit

\* The shell and another client on one channel.
SpecShell == Init /\ [][ShellNext]_vars

\* ================================================================ claims
Present(id) == state[id] # Nil

\* The operations that committed on id, oldest first.
OpsOf(id) == [i \in 1..Len(opsLog[id]) |-> opsLog[id][i].op]

\* C1 as stated: after a successful CreatePerson(id, ...) with any argument
\* values, ReadPerson(id) succeeds and returns exactly the eight arguments.
C1_CreateThenReadAnyArgs ==
    (last.op = "CreatePerson" /\ last.err = OK) =>
        LET r == ReadPerson(state, "none", last.id) IN
        r.err = OK /\ r.ret = NewPerson(last.id, last.args)

\* C1 amended: after a successful CreatePerson(id, ...) whose string
\* arguments are valid UTF-8, ReadPerson(id) succeeds and returns a record
\* whose eight fields equal the arguments.
C1_CreateThenRead ==
    (last.op = "CreatePerson" /\ last.err = OK /\ ValidArgs(last.args)) =>
        LET r == ReadPerson(state, "none", last.id) IN
        r.err = OK /\ r.ret = NewPerson(last.id, last.args)

C1_Witness ==
    /\ last.op = "CreatePerson" /\ last.err = OK /\ ValidArgs(last.args)
    /\ ReadPerson(state, "none", last.id).ret.Name = <<"O", DQ, "N">>

\* C2: CreatePerson on an id the world state holds fails with the
\* already-exists error, and ReadPerson(id) returns afterwards what it
\* returned before the call.
C2_CreateExistingFails ==
    [][(last'.op = "CreatePerson" /\ Present(last'.id)) =>
         /\ last'.err = "AlreadyExists"
         /\ ReadPerson(state', "none", last'.id)
              = ReadPerson(state, "none", last'.id)]_vars

C2_Witness ==
    /\ last.op = "CreatePerson" /\ last.err = "AlreadyExists"
    /\ ReadPerson(state, "none", last.id).err = OK

\* C3: for an id no CreatePerson and no InitLedger ever wrote, UpdatePerson,
\* DeletePerson and GetPersonHistory each fail with the does-not-exist error.
C3_NeverCreatedNotFound ==
    \A id \in Ids : opsLog[id] = <<>> =>
        /\ \A a \in ArgSets :
             UpdatePerson(state, "none", id, a).err = "DoesNotExist"
        /\ DeletePerson(state, "none", id).err = "DoesNotExist"
        /\ GetPersonHistory(state, history, "none", id).err = "DoesNotExist"

C3_Witness ==
    /\ last.op \in {"UpdatePerson", "DeletePerson"}
    /\ last.err = "DoesNotExist"
    /\ opsLog[last.id] = <<>>
    /\ \E k \in Ids : opsLog[k] # <<>>

\* C4: while the last committed operation on an id is a successful
\* DeletePerson, ReadPerson(id) fails with the does-not-exist error and
\* PersonExists(id) returns false without error.
C4_DeletedIsGone ==
    \A id \in Ids :
        (opsLog[id] # <<>> /\ opsLog[id][Len(opsLog[id])].op = "DeletePerson")
        => /\ ReadPerson(state, "none", id).err = "DoesNotExist"
           /\ PersonExists(state, "none", id).err = OK
           /\ PersonExists(state, "none", id).ret = FALSE

C4_Witness ==
    /\ last.op = "DeletePerson" /\ last.err = OK
    /\ ReadPerson(state, "none", last.id).err = "DoesNotExist"
    /\ ~PersonExists(state, "none", last.id).ret

\* The cases of C5: the operation about to be recorded in last' is one the
\* contract must refuse in the state it runs in.
C5_FailingCase ==
    \/ last'.op = "CreatePerson" /\ Present(last'.id)
    \/ /\ last'.op \in {"UpdatePerson", "DeletePerson", "ReadPerson",
                        "GetPersonHistory"}
       /\ ~Present(last'.id)
    \/ last'.op = "InitLedger" /\ last'.fault \in {"PutState", "PutState2"}

\* C5: a failed operation (CreatePerson on a present id; UpdatePerson,
\* DeletePerson, ReadPerson or GetPersonHistory on an absent id; InitLedger
\* with a failing write) returns an error and leaves the world state and
\* every key's history as they were.
C5_FailureWritesNothing ==
    [][C5_FailingCase =>
         /\ last'.err # OK
         /\ state' = state
         /\ history' = history]_vars

C5_Witness ==
    /\ last.op = "InitLedger" /\ last.fault = "PutState2"
    /\ last.err = "PutFailed"
    /\ ~Present(person0)

\* C6 as stated: after a successful UpdatePerson(id, ...) with any argument
\* values, ReadPerson(id) returns the id and exactly the seven arguments.
C6_UpdateThenReadAnyArgs ==
    (last.op = "UpdatePerson" /\ last.err = OK) =>
        LET r == ReadPerson(state, "none", last.id) IN
        r.err = OK /\ r.ret = NewPerson(last.id, last.args)

\* C6 amended: after a successful UpdatePerson(id, ...) whose string
\* arguments are valid UTF-8, ReadPerson(id) returns a record with the same
\* id and all seven other fields equal to the arguments, none kept from the
\* record stored before.
C6_UpdateReplaces ==
    (last.op = "UpdatePerson" /\ last.err = OK /\ ValidArgs(last.args)) =>
        LET r == ReadPerson(state, "none", last.id) IN
        r.err = OK /\ r.ret = NewPerson(last.id, last.args)

\* An update with an empty address over a record whose address was not empty.
C6_Witness ==
    /\ last.op = "UpdatePerson" /\ last.err = OK /\ ValidArgs(last.args)
    /\ last.args.address = <<>>
    /\ Len(opsLog[last.id]) >= 2
    /\ opsLog[last.id][Len(opsLog[last.id]) - 1].rec.Address # <<>>
    /\ ReadPerson(state, "none", last.id).ret.Address = <<>>

\* An id created by CreatePerson and since then only updated.
CreatedThenUpdated(id) ==
    /\ opsLog[id] # <<>>
    /\ opsLog[id][1].op = "CreatePerson"
    /\ \A i \in 2..Len(opsLog[id]) : opsLog[id][i].op = "UpdatePerson"

\* C7: for an id created by CreatePerson and then updated k times,
\* GetPersonHistory(id) returns k+1 entries in non-decreasing timestamp
\* order, the i-th carrying the record in effect after the i-th of those
\* transactions.
C7_HistoryOfUpdates ==
    \A id \in Ids : CreatedThenUpdated(id) =>
        LET h == GetPersonHistory(state, history, "none", id) IN
        /\ h.err = OK
        /\ Len(h.ret) = Len(opsLog[id])
        /\ \A i, j \in 1..Len(h.ret) :
             i <= j => h.ret[i].Timestamp <= h.ret[j].Timestamp
        /\ \A i \in 1..Len(h.ret) : h.ret[i].Data = opsLog[id][i].rec

\* A create and two updates, the updates stamped alike by the platform.
C7_Witness ==
    \E id \in Ids :
        /\ CreatedThenUpdated(id)
        /\ Len(opsLog[id]) = 3
        /\ opsLog[id][2].rec # opsLog[id][3].rec
        /\ LET h == GetPersonHistory(state, history, "none", id) IN
           Len(h.ret) = 3 /\ h.ret[1].Timestamp < h.ret[3].Timestamp

\* No mutation but one successful CreatePerson for each of some ids.
OnlyCreates == \A id \in Ids : OpsOf(id) \in {<<>>, <<"CreatePerson">>}

CreatedIds == {id \in Ids : opsLog[id] # <<>>}

\* C8 as stated: on an empty world state GetAllPersons returns an empty
\* sequence; after N creations of distinct ids and nothing else it returns N
\* records, one per id, each equal to the arguments of its creation.
C8_GetAllAnyArgs ==
    OnlyCreates =>
        LET g == GetAllPersons(state, "none") IN
        /\ g.err = OK
        /\ Len(g.ret) = Cardinality(CreatedIds)
        /\ \A i, j \in 1..Len(g.ret) : g.ret[i].ID = g.ret[j].ID => i = j
        /\ \A id \in CreatedIds :
             \E i \in 1..Len(g.ret) :
                 g.ret[i] = NewPerson(id, opsLog[id][1].args)

\* C8 amended: the same, with the arguments of each creation being valid
\* UTF-8 strings.
C8_GetAllAfterCreates ==
    (OnlyCreates /\ \A id \in CreatedIds : ValidArgs(opsLog[id][1].args)) =>
        LET g == GetAllPersons(state, "none") IN
        /\ g.err = OK
        /\ Len(g.ret) = Cardinality(CreatedIds)
        /\ \A i, j \in 1..Len(g.ret) : g.ret[i].ID = g.ret[j].ID => i = j
        /\ \A id \in CreatedIds :
             \E i \in 1..Len(g.ret) :
                 g.ret[i] = NewPerson(id, opsLog[id][1].args)

C8_Witness ==
    /\ OnlyCreates
    /\ CreatedIds = Ids
    /\ \A id \in Ids : ValidArgs(opsLog[id][1].args)
    /\ Len(GetAllPersons(state, "none").ret) = Cardinality(Ids)

SeedsPresent == \A i \in 1..Len(SeedPersons) : Present(SeedPersons[i].ID)

\* C9 as stated: InitLedger on a world state that holds both seed ids fails.
C9_ReseedFails ==
    [][(last'.op = "InitLedger" /\ SeedsPresent) => last'.err # OK]_vars

\* C9 amended: InitLedger on a world state that holds both seed ids
\* succeeds whenever the platform accepts its two writes: it overwrites
\* person0 and person1 with the seed records and appends one entry to the
\* history of each.
C9_ReseedOverwrites ==
    [][(last'.op = "InitLedger" /\ last'.fault = "none" /\ SeedsPresent) =>
         /\ last'.err = OK
         /\ \A i \in 1..Len(SeedPersons) :
              LET k == SeedPersons[i].ID IN
              /\ state'[k] = Marshal(SeedPersons[i])
              /\ Len(history'[k]) = Len(history[k]) + 1
              /\ SubSeq(history'[k], 1, Len(history[k])) = history[k]]_vars

\* InitLedger committed twice in a row.
C9_Witness ==
    /\ last.op = "InitLedger" /\ last.err = OK
    /\ \A i \in 1..Len(SeedPersons) :
         LET log == OpsOf(SeedPersons[i].ID) IN
         /\ Len(log) >= 2
         /\ log[Len(log) - 1] = "InitLedger"

\* The creations and deletions among ops, in order.
RECURSIVE Lifecycle(_, _)
Lifecycle(ops, creations) ==
    IF ops = <<>> THEN <<>>
    ELSE (IF Head(ops) \in creations THEN <<"create">>
          ELSE IF Head(ops) = "DeletePerson" THEN <<"delete">>
          ELSE <<>>)
         \o Lifecycle(Tail(ops), creations)

Alternates(seq) ==
    \A i \in 1..Len(seq) :
        seq[i] = (IF i % 2 = 1 THEN "create" ELSE "delete")

\* C10 as stated: for each id the successful creations and deletions
\* alternate, starting with a creation - whether a creation is a successful
\* CreatePerson only, or a successful CreatePerson or InitLedger write.
C10_StrictAlternation ==
    \A id \in Ids :
        \/ Alternates(Lifecycle(OpsOf(id), {"CreatePerson"}))
        \/ Alternates(Lifecycle(OpsOf(id), {"CreatePerson", "InitLedger"}))

\* C10 amended: for each id, a CreatePerson succeeds only when the id is
\* absent (never written, or deleted since), a DeletePerson or UpdatePerson
\* succeeds only when it is present, and an InitLedger write of a seed id
\* succeeds in either case; the id is present exactly when its last committed
\* operation is not a deletion.
C10_Lifecycle ==
    \A id \in Ids :
        LET ops == OpsOf(id) IN
        /\ \A i \in 1..Len(ops) :
             /\ ops[i] = "CreatePerson" => (i = 1 \/ ops[i - 1] = "DeletePerson")
             /\ ops[i] \in {"DeletePerson", "UpdatePerson"} =>
                    (i > 1 /\ ops[i - 1] # "DeletePerson")
        /\ Present(id) <=> (ops # <<>> /\ ops[Len(ops)] # "DeletePerson")

\* Created, updated, deleted and created again.
C10_Witness ==
    \E id \in Ids :
        OpsOf(id) = <<"CreatePerson", "DeletePerson", "CreatePerson">>

\* C11: for a present id GetPersonHistory(id) succeeds and returns one
\* entry for every committed mutation of the key, oldest first, the i-th for
\* the i-th committed operation on it.
C11_HistoryNeverTruncated ==
    \A id \in Ids : Present(id) =>
        LET h == GetPersonHistory(state, history, "none", id) IN
        /\ h.err = OK
        /\ Len(h.ret) = Len(opsLog[id])
        /\ \A i \in 1..Len(h.ret) : h.ret[i].Tx = history[id][i].TxId

\* C12: GetPersonHistory(id) fails with the does-not-exist error whenever
\* the id is absent from the world state, whatever its change log holds.
C12_HistoryOfAbsentId ==
    \A id \in Ids : ~Present(id) =>
        GetPersonHistory(state, history, "none", id).err = "DoesNotExist"

\* An id created and deleted: absent, with a change log of two entries.
C12_Witness ==
    /\ last.op = "DeletePerson" /\ last.err = OK
    /\ Len(history[last.id]) = 2
    /\ GetPersonHistory(state, history, "none", last.id).err = "DoesNotExist"

\* Whether the committed operations on id left it in the world state.
LeftPresent(id) ==
    opsLog[id] # <<>> /\ opsLog[id][Len(opsLog[id])].op # "DeletePerson"

\* C13: PersonExists(id) never reports absence as an error; it returns
\* true exactly when the id is a key of the world state, which is exactly
\* when ReadPerson(id) succeeds.
C13_ExistsIsTotal ==
    /\ \A id \in Ids :
         LET e == PersonExists(state, "none", id) IN
         /\ e.err = OK
         /\ e.ret \in BOOLEAN
         /\ e.ret <=> LeftPresent(id)
         /\ e.ret <=> (ReadPerson(state, "none", id).err = OK)
    /\ last.op = "PersonExists" =>
         /\ last.err # "DoesNotExist"
         /\ last.fault = "none" => (last.err = OK /\ last.ret = Present(last.id))

\* PersonExists answered false for an id that was created and deleted.
C13_Witness ==
    /\ last.op = "PersonExists" /\ last.err = OK /\ last.ret = FALSE
    /\ Len(opsLog[last.id]) = 2
    /\ \E k \in Ids : PersonExists(state, "none", k).ret

\* C14: every key of the world state holds one record, whose id field is
\* the key; the records GetAllPersons returns have pairwise distinct ids.
C14_IdIsKey ==
    /\ \A id \in Ids : Present(id) =>
         /\ ~Unmarshal(state[id]).err
         /\ Unmarshal(state[id]).p.ID = id
    /\ LET g == GetAllPersons(state, "none") IN
       /\ g.err = OK
       /\ \A i, j \in 1..Len(g.ret) : g.ret[i].ID = g.ret[j].ID => i = j

\* Both keys present, one of them after an update.
C14_Witness ==
    /\ \A id \in Ids : Present(id)
    /\ last.op = "UpdatePerson" /\ last.err = OK
    /\ Len(GetAllPersons(state, "none").ret) = Cardinality(Ids)

\* C20: a successful CreatePerson, UpdatePerson or DeletePerson of id
\* leaves every other key's presence, record and history as they were and
\* appends exactly one entry to the history of id.
C20_OnlyItsKey ==
    [][(last'.op \in {"CreatePerson", "UpdatePerson", "DeletePerson"}
        /\ last'.err = OK /\ ntx' # ntx) =>
         /\ \A k \in Ids \ {last'.id} :
              state'[k] = state[k] /\ history'[k] = history[k]
         /\ Len(history'[last'.id]) = Len(history[last'.id]) + 1
         /\ SubSeq(history'[last'.id], 1, Len(history[last'.id]))
              = history[last'.id]]_vars

\* A create of one id while the other is present with a history.
C20_Witness ==
    /\ last.op = "CreatePerson" /\ last.err = OK
    /\ \E k \in Ids \ {last.id} : Present(k) /\ Len(history[k]) >= 2

\* C19: between handler runs no iterator is left open: GetAllPersons and
\* GetPersonHistory close the one they obtain on every return, whether the
\* loop completes, Next fails or a value does not deserialize.
C19_CursorsClosed ==
    /\ cursors = 0
    /\ \A f \in {"none", "GetStateByRange", "Next"} :
         GetAllPersons(state, f).open = 0
    /\ \A id \in Ids, f \in {"none", "GetHistoryForKey", "Next"} :
         GetPersonHistory(state, history, f, id).open = 0

\* GetAllPersons has just failed in Next with records to scan, and
\* GetPersonHistory of some key fails to deserialize a change.
C19_Witness ==
    /\ last.op = "GetAllPersons" /\ last.fault = "Next"
    /\ last.err = "StubError"
    /\ \E id \in Ids :
         GetPersonHistory(state, history, "none", id).err = "JSONError"

\* C15: a failed gateway call ends only the command that made it: the
\* shell goes back to its menu and is never ended by a failure.
C15_FailureNeverEndsShell == shell.pc # "crashed"

\* C16: when the shell's update commits, every field whose prompt was left
\* blank has, after the commit, the value it had in the record stored
\* immediately before the commit.
C16_BlankFieldsKept ==
    [][(shell.pc = "update.commit" /\ shell'.pc = "menu") =>
         LET in == shell.input
             before == Effective(state[shell.id])
             after == Effective(state'[shell.id]) IN
         /\ Len(in.serial) = 0 => after.Serial = before.Serial
         /\ Len(in.name) = 0 => after.Name = before.Name
         /\ Len(in.surname) = 0 => after.Surname = before.Surname
         /\ Len(in.city) = 0 => after.City = before.City
         /\ Len(in.address) = 0 => after.Address = before.Address
         /\ Len(in.phone) = 0 => after.Phone = before.Phone
         /\ Len(in.married) = 0 => after.Married = before.Married]_vars

\* C17: a step in which the shell or the other client only evaluates (no
\* transaction is endorsed or validated in it) leaves the world state and
\* the history as they were, whether the operation succeeds or fails; the
\* ledger changes only when a submitted transaction commits, one
\* transaction a step; and the shell submits CreatePerson and UpdatePerson
\* only.
C17_OnlySubmitsWrite ==
    [][/\ pending' = pending => (state' = state /\ history' = history)
       /\ (state' # state \/ history' # history) =>
            /\ ntx' = ntx + 1
            /\ \E c \in Clients : pending[c] # NoTx /\ pending'[c] = NoTx
            /\ shell' # shell => pending["shell"] # NoTx
       /\ pending'["shell"].op \in {"none", "CreatePerson", "UpdatePerson"}
      ]_vars

\* The shell's create has committed and its history query has failed since.
C17_Witness ==
    /\ shell.pc = "menu"
    /\ last.op = "GetPersonHistory" /\ last.err = "StubError"
    /\ \E id \in Ids :
         Present(id) /\ Effective(state[id]).Name = <<"Anna">>

\* C18: when a CreatePerson commits, its key was absent, so no record is
\* overwritten; and a CreatePerson of the same id that another client has
\* had endorsed meanwhile is no longer valid, so at most one of the two
\* commits.
C18_OneCreateWins ==
    [][\A c \in Clients :
         (/\ pending[c].op = "CreatePerson"
          /\ pending'[c] = NoTx
          /\ ntx' = ntx + 1) =>
            /\ state[pending[c].id] = Nil
            /\ \A o \in Clients \ {c} :
                 (/\ pending[o].op = "CreatePerson"
                  /\ pending[o].id = pending[c].id) =>
                    ~Valid(pending'[o], history')]_vars

\* Both clients had a CreatePerson of one absent id endorsed; one has
\* committed and the other is still waiting.
C18_Witness ==
    \E c \in Clients :
      /\ pending[c].op = "CreatePerson"
      /\ pending[c].ver[pending[c].id] = 0
      /\ Present(pending[c].id)
      /\ Len(history[pending[c].id]) = 1
      /\ \A o \in Clients \ {c} : pending[o] = NoTx

====
